---------------------------- MODULE Spec2Model ----------------------------
(***************************************************************************)
(* Model of postgres_mcp_server.py: the six MCP tools, the lazily created  *)
(* global asyncpg pool and the query guard of execute_query.               *)
(*                                                                         *)
(* Text is modelled as a sequence of one-character strings, so that        *)
(* lower(), strip(), rstrip(';'), startswith() and the substring test      *)
(* `in` are computed as Python computes them.                              *)
(***************************************************************************)
EXTENDS Integers, Sequences, FiniteSets, Bags, TLC

(***************************************************************************)
(* Bounds of the model.                                                    *)
(***************************************************************************)
\* concurrent tool invocations in the main specification
NumInv == 2
\* pools that create_pool may hand out before the database refuses more
MaxPools == 2
\* query texts are concatenations of at most this many pieces
MaxPieces == 3
\* concurrent read_table invocations in the pool specification
PoolInv == 11

(***************************************************************************)
(* Program constants.                                                      *)
(***************************************************************************)
\* asyncpg.create_pool(..., max_size=10)
max_size == 10
\* execute_query(query, limit: int = 100), read_table(..., limit: int = 100)
DefaultLimit == 100
\* query[:200] + "..." if len(query) > 200 else query
EchoLen == 200

(***************************************************************************)
(* Python str operations.                                                  *)
(***************************************************************************)
UpperCase ==
  <<"A","B","C","D","E","F","G","H","I","J","K","L","M",
    "N","O","P","Q","R","S","T","U","V","W","X","Y","Z">>

LowerCase ==
  <<"a","b","c","d","e","f","g","h","i","j","k","l","m",
    "n","o","p","q","r","s","t","u","v","w","x","y","z">>

\* the characters str.strip() removes
Whitespace == {" ", "\t", "\n", "\r", "\f"}

LowerChar(c) ==
  IF \E i \in 1..26 : UpperCase[i] = c
  THEN LowerCase[CHOOSE i \in 1..26 : UpperCase[i] = c]
  ELSE c

\* str.lower()
Lower(s) == [i \in 1..Len(s) |-> LowerChar(s[i])]

\* str.lstrip(chars) / str.rstrip(chars) / str.strip()
LStripChars(s, chars) ==
  IF \A i \in 1..Len(s) : s[i] \in chars
  THEN << >>
  ELSE LET first == CHOOSE i \in 1..Len(s) :
                      /\ s[i] \notin chars
                      /\ \A j \in 1..(i-1) : s[j] \in chars
       IN  SubSeq(s, first, Len(s))

RStripChars(s, chars) ==
  IF \A i \in 1..Len(s) : s[i] \in chars
  THEN << >>
  ELSE LET last == CHOOSE i \in 1..Len(s) :
                     /\ s[i] \notin chars
                     /\ \A j \in (i+1)..Len(s) : s[j] \in chars
       IN  SubSeq(s, 1, last)

Strip(s) == RStripChars(LStripChars(s, Whitespace), Whitespace)

\* str.startswith(prefix)
StartsWith(s, prefix) ==
  /\ Len(prefix) <= Len(s)
  /\ SubSeq(s, 1, Len(prefix)) = prefix

\* str.endswith(suffix)
EndsWith(s, suffix) ==
  /\ Len(suffix) <= Len(s)
  /\ SubSeq(s, Len(s) - Len(suffix) + 1, Len(s)) = suffix

\* sub in s
Contains(s, sub) ==
  \E i \in 0..(Len(s) - Len(sub)) : SubSeq(s, i + 1, i + Len(sub)) = sub

Digits == <<"0","1","2","3","4","5","6","7","8","9">>

RECURSIVE NatToStr(_)
NatToStr(n) ==
  IF n < 10 THEN << Digits[n + 1] >>
  ELSE NatToStr(n \div 10) \o << Digits[(n % 10) + 1] >>

\* f"{limit}" for an int
IntToStr(n) == IF n < 0 THEN <<"-">> \o NatToStr(0 - n) ELSE NatToStr(n)

(***************************************************************************)
(* Literals of execute_query.                                              *)
(***************************************************************************)
kw_select   == <<"s","e","l","e","c","t">>
kw_limit    == <<"l","i","m","i","t">>
kw_drop     == <<"d","r","o","p">>
kw_delete   == <<"d","e","l","e","t","e">>
kw_truncate == <<"t","r","u","n","c","a","t","e">>
kw_update   == <<"u","p","d","a","t","e">>
kw_insert   == <<"i","n","s","e","r","t">>
kw_alter    == <<"a","l","t","e","r">>
kw_create   == <<"c","r","e","a","t","e">>

\* f" LIMIT {limit}"
LimitClause(limit) == <<" ","L","I","M","I","T"," ">> \o IntToStr(limit)

\* the denylist with 'alter' forgotten
dangerous_keywords_short ==
  << kw_drop, kw_delete, kw_truncate, kw_update, kw_insert, kw_create >>

dangerous_keywords ==
  << kw_drop, kw_delete, kw_truncate, kw_update, kw_insert, kw_alter, kw_create >>

\* query_lower = query.lower().strip()
query_lower(query) == Strip(Lower(query))


\* the first keyword of dangerous_keywords that occurs in s (0: none)
FirstDangerous(s) ==
  IF \E i \in 1..Len(dangerous_keywords) : Contains(s, dangerous_keywords[i])
  THEN CHOOSE i \in 1..Len(dangerous_keywords) :
         /\ Contains(s, dangerous_keywords[i])
         /\ \A j \in 1..(i-1) : ~Contains(s, dangerous_keywords[j])
  ELSE 0

\* the guard with its two tests in the other order
GuardVerdict_keywords_first(query) ==
  IF FirstDangerous(query_lower(query)) # 0
  THEN [tag |-> "ErrKeyword",
        keyword |-> dangerous_keywords[FirstDangerous(query_lower(query))]]
  ELSE IF ~StartsWith(query_lower(query), kw_select)
  THEN [tag |-> "ErrNotSelect"]
  ELSE [tag |-> "allowed"]

\* the guard testing `'select' in query_lower` instead of startswith
GuardVerdict_anywhere(query) ==
  IF ~Contains(query_lower(query), kw_select)
  THEN [tag |-> "ErrNotSelect"]
  ELSE IF FirstDangerous(query_lower(query)) # 0
  THEN [tag |-> "ErrKeyword",
        keyword |-> dangerous_keywords[FirstDangerous(query_lower(query))]]
  ELSE [tag |-> "allowed"]

\* if not query_lower.startswith('select'): return "Error: Only SELECT ..."
\* for keyword in dangerous_keywords: if keyword in query_lower: return ...
GuardVerdict(query) ==
  IF ~StartsWith(query_lower(query), kw_select)
  THEN [tag |-> "ErrNotSelect"]
  ELSE IF FirstDangerous(query_lower(query)) # 0
  THEN [tag |-> "ErrKeyword",
        keyword |-> dangerous_keywords[FirstDangerous(query_lower(query))]]
  ELSE [tag |-> "allowed"]

\* the limit clause appended without looking for an existing one
AddLimit_always(query, limit) ==
  RStripChars(query, {";"}) \o LimitClause(limit)

\* if 'limit' not in query_lower: query = query.rstrip(';') + f" LIMIT {limit}"
AddLimit(query, limit) ==
  IF ~Contains(query_lower(query), kw_limit)
  THEN RStripChars(query, {";"}) \o LimitClause(limit)
  ELSE query

\* the echo read as query[:200] + ("..." if len(query) > 200 else query)
EchoQuery_misparsed(query) ==
  SubSeq(query, 1, IF Len(query) > EchoLen THEN EchoLen ELSE Len(query))
    \o (IF Len(query) > EchoLen THEN <<".", ".", ".">> ELSE query)

\* "query": query[:200] + "..." if len(query) > 200 else query
EchoQuery(query) ==
  IF Len(query) > EchoLen
  THEN SubSeq(query, 1, EchoLen) \o <<".", ".", ".">>
  ELSE query

(***************************************************************************)
(* The database, as the tools see it through asyncpg: a catalog with two   *)
(* base tables in schema public, one of them empty.                        *)
(***************************************************************************)
S_public  == <<"p","u","b","l","i","c">>
T_users   == <<"u","s","e","r","s">>
T_empty   == <<"a","u","d","i","t">>
T_missing == <<"n","o","n","e">>

T_view    == <<"v","u","s","e","r","s">>

\* a table in which several rows have the same value in the first column
T_tied    == <<"l","o","g","s">>

\* information_schema.tables
CatalogTables ==
  { [table_schema |-> S_public, table_name |-> T_users, table_type |-> "BASE TABLE"],
    [table_schema |-> S_public, table_name |-> T_empty, table_type |-> "BASE TABLE"],
    [table_schema |-> S_public, table_name |-> T_tied, table_type |-> "BASE TABLE"],
    [table_schema |-> S_public, table_name |-> T_view,  table_type |-> "VIEW"] }

C_id   == <<"i","d">>
C_name == <<"n","a","m","e">>

\* information_schema.columns
CatalogColumns ==
  { [table_schema |-> S_public, table_name |-> T_users, column_name |-> C_id,
     data_type |-> "integer", ordinal_position |-> 1],
    [table_schema |-> S_public, table_name |-> T_users, column_name |-> C_name,
     data_type |-> "text", ordinal_position |-> 2],
    [table_schema |-> S_public, table_name |-> T_empty, column_name |-> C_id,
     data_type |-> "integer", ordinal_position |-> 1],
    [table_schema |-> S_public, table_name |-> T_tied, column_name |-> C_id,
     data_type |-> "integer", ordinal_position |-> 1],
    [table_schema |-> S_public, table_name |-> T_tied, column_name |-> C_name,
     data_type |-> "text", ordinal_position |-> 2],
    [table_schema |-> S_public, table_name |-> T_view, column_name |-> C_id,
     data_type |-> "integer", ordinal_position |-> 1] }

\* column_query of describe_table: ... WHERE c.table_schema = $1
\*  AND c.table_name = $2 ... ORDER BY c.ordinal_position
TableColumns(schema, table) ==
  LET cols == { c \in CatalogColumns :
                  c.table_schema = schema /\ c.table_name = table }
  IN  [ i \in 1..Cardinality(cols) |->
          CHOOSE c \in cols : c.ordinal_position = i ]

\* the rows of each table, as stored
TableRows(schema, table) ==
  IF schema = S_public /\ table \in {T_users, T_view}
  THEN << [id |-> 1], [id |-> 2] >>
  ELSE IF schema = S_public /\ table = T_tied
  THEN << [id |-> 1, name |-> "a"], [id |-> 1, name |-> "b"],
          [id |-> 2, name |-> "c"] >>
  ELSE << >>

\* ORDER BY 1 keeps each row at its first column's rank, without a tie-break
FirstKeyOrder(rows, f) ==
  \A i \in 1..(Len(rows) - 1) : rows[f[i]].id <= rows[f[i + 1]].id

\* SELECT * FROM schema.table ORDER BY 1: the orders the database may give
\* the rows; rows with equal first columns come in any order
OrderBy1(rows) ==
  { [i \in 1..Len(rows) |-> rows[f[i]]] :
      f \in { g \in [1..Len(rows) -> 1..Len(rows)] :
                /\ \A i, j \in 1..Len(rows) : i # j => g[i] # g[j]
                /\ FirstKeyOrder(rows, g) } }

\* SELECT COUNT(*) FROM information_schema.tables
\*  WHERE table_schema = $1 AND table_name = $2
TableExists(schema, table) ==
  Cardinality({ t \in CatalogTables :
                  t.table_schema = schema /\ t.table_name = table })

\* SELECT * FROM schema.table ORDER BY 1 LIMIT $1 OFFSET $2
FetchPage(rows, limit, offset) ==
  SubSeq(rows, offset + 1,
         IF offset + limit < Len(rows) THEN offset + limit ELSE Len(rows))

\* ordering of names (ORDER BY table_name, ORDER BY column_name)
CharRank(c) ==
  IF \E i \in 1..26 : LowerCase[i] = c
  THEN CHOOSE i \in 1..26 : LowerCase[i] = c
  ELSE 0

RECURSIVE NameLess(_, _)
NameLess(a, b) ==
  IF b = << >> THEN FALSE
  ELSE IF a = << >> THEN TRUE
  ELSE IF Head(a) = Head(b) THEN NameLess(Tail(a), Tail(b))
  ELSE CharRank(Head(a)) < CharRank(Head(b))

\* the names of set S as a sequence in ascending order
RECURSIVE SortedNames(_)
SortedNames(S) ==
  IF S = {} THEN << >>
  ELSE LET least == CHOOSE x \in S : \A y \in S \ {x} : NameLess(x, y)
       IN  << least >> \o SortedNames(S \ {least})

\* tables_query without its table_type condition: views are listed too
BaseTables_with_views(schema) ==
  SortedNames({ t.table_name : t \in
                 { u \in CatalogTables : u.table_schema = schema } })

\* SELECT table_name FROM information_schema.tables WHERE table_schema = $1
\*  AND table_type = 'BASE TABLE' ORDER BY table_name
BaseTables(schema) ==
  SortedNames({ t.table_name : t \in
                 { u \in CatalogTables : /\ u.table_schema = schema
                                         /\ u.table_type = "BASE TABLE" } })

\* s LIKE pattern: % matches any run of characters, _ any one character,
\* and a backslash makes the character after it stand for itself (a pattern
\* of search_tables ends with '%', so none ends with a lone backslash)
RECURSIVE Like(_, _)
Like(str, pattern) ==
  IF pattern = << >> THEN str = << >>
  ELSE IF Head(pattern) = "%"
  THEN \/ Like(str, Tail(pattern))
       \/ str # << >> /\ Like(Tail(str), pattern)
  ELSE IF Head(pattern) = "\\" /\ Len(pattern) > 1
  THEN /\ str # << >>
       /\ Head(str) = pattern[2]
       /\ Like(Tail(str), Tail(Tail(pattern)))
  ELSE /\ str # << >>
       /\ Head(pattern) = "_" \/ Head(pattern) = Head(str)
       /\ Like(Tail(str), Tail(pattern))

\* search_pattern = f"%{search_term.lower()}%"
search_pattern(search_term) == <<"%">> \o Lower(search_term) \o <<"%">>

\* table_query of search_tables
MatchingTables(schema, pattern) ==
  SortedNames({ t.table_name : t \in
                 { u \in CatalogTables : /\ u.table_schema = schema
                                         /\ u.table_type = "BASE TABLE"
                                         /\ Like(Lower(u.table_name), pattern) } })

\* rows of information_schema.columns in ORDER BY table_name, column_name
RECURSIVE SortedColumns(_)
SortedColumns(S) ==
  IF S = {} THEN << >>
  ELSE LET least == CHOOSE x \in S : \A y \in S \ {x} :
                      \/ NameLess(x.table_name, y.table_name)
                      \/ /\ x.table_name = y.table_name
                         /\ NameLess(x.column_name, y.column_name)
       IN  << least >> \o SortedColumns(S \ {least})

\* column_query of search_tables
MatchingColumns(schema, pattern) ==
  SortedColumns({ c \in CatalogColumns :
                    /\ c.table_schema = schema
                    /\ \/ Like(Lower(c.column_name), pattern)
                       \/ Like(Lower(c.table_name), pattern) })

\* row sets a free-form SELECT may come back with
QueryRowSets == { << >>, << [id |-> 1] >>, << [id |-> 1], [id |-> 2] >> }

\* exceptions conn.fetch may raise inside execute_query's try block
QueryErrors == { "PostgresSyntaxError", "InsufficientPrivilegeError", "PostgresError" }

(***************************************************************************)
(* State.                                                                  *)
(***************************************************************************)
VARIABLES
  pool,        \* the global `pool`: 0 is None, p > 0 is the p-th pool created
  created,     \* pools handed out by asyncpg.create_pool so far
  checkedOut,  \* checkedOut[p]: connections of pool p held by invocations
  invs,        \* bag of tool invocations (coroutines), running or returned
  started,     \* tool invocations received so far
  lifespanPc,  \* position of the lifespan context manager
  chat,        \* the chat front-end: one turn of process_user_message
  setup        \* get_database_config of the server and of verify_setup.py

vars == << pool, created, checkedOut, invs, started, lifespanPc, chat, setup >>

\* the state of the MCP server process
server == << pool, created, checkedOut, invs, started, lifespanPc >>

PoolIds == 1..MaxPools

NoResult == [tag |-> "none"]

\* no user message is being processed
NoChat == [pc |-> "idle"]

\* no configuration has been read
NoSetup == [pc |-> "idle"]

\* a tool coroutine at its first line, with its arguments bound
NewInv(tool, table_name, schema, query, limit, offset, search_term) ==
  [ tool |-> tool, table_name |-> table_name, schema |-> schema,
    query |-> query, limit |-> limit, offset |-> offset,
    search_term |-> search_term,
    given |-> query,      \* the caller's text (history: `query` is reassigned)
    pc |-> "start",
    ref |-> 0,            \* pool the acquire context is bound to
    held |-> 0,           \* connections held
    acquired |-> 0,       \* connections acquired so far (history)
    sent |-> << >>,       \* commands issued to the database (history)
    cancelled |-> 0,      \* in-flight commands cancelled (history)
    local |-> << >>,      \* row sets fetched so far, kept in local variables
    pool_ok |-> FALSE,    \* the tool's pool check has passed (history)
    fault |-> "",         \* what the environment did to the call (history)
    result |-> NoResult, raised |-> "" ]

Invocations == BagToSet(invs)

\* invocation s becomes t
Becomes(s, t) == invs' = (invs (-) SetToBag({s})) (+) SetToBag({t})

\* return value from the tool function
Return(s, value) == [s EXCEPT !.pc = "done", !.result = value, !.held = 0]

\* an exception leaves the tool function
Raise(s, exc) == [s EXCEPT !.pc = "done", !.raised = exc, !.held = 0]

\* the environment fails, times out or cancels the await s is suspended on
Fault(s, f) == [s EXCEPT !.fault = f]

\* the statement sent to the database
Sending(s, stmt, text) ==
  [s EXCEPT !.sent = Append(@, [stmt |-> stmt, text |-> text])]

\* acquire() and release() called by hand, the release only after the
\* tool's last command: every earlier exit keeps the connection
Released_at_end_only(s) ==
  IF s.held > 0 /\ s.pc \in {"tables_query", "data_query", "fk_query",
                              "query", "type_query", "search_column_query"}
                /\ s.fault = ""
  THEN [checkedOut EXCEPT ![s.ref] = @ - s.held]
  ELSE checkedOut

\* __aexit__ of `async with pool.acquire() as conn`: the connection goes
\* back to the pool it was taken from
Released(s) ==
  IF s.held > 0
  THEN [checkedOut EXCEPT ![s.ref] = @ - s.held]
  ELSE checkedOut

(***************************************************************************)
(* lifespan                                                                *)
(***************************************************************************)
\* entering lifespan: get_database_config(), then await create_pool
LifespanStart ==
  /\ lifespanPc = "notrun"
  /\ started = 0
  /\ lifespanPc' = "create_pool"
  /\ UNCHANGED << pool, created, checkedOut, invs, started, chat, setup >>

\* pool = await asyncpg.create_pool(...); yield
LifespanCreated ==
  /\ lifespanPc = "create_pool"
  /\ created < MaxPools
  /\ created' = created + 1
  /\ pool' = created + 1
  /\ lifespanPc' = "running"
  /\ UNCHANGED << checkedOut, invs, started, chat, setup >>

\* except Exception as e: ... raise
LifespanFailed ==
  /\ lifespanPc = "create_pool"
  /\ lifespanPc' = "failed"
  /\ UNCHANGED << pool, created, checkedOut, invs, started, chat, setup >>

\* after yield: if pool: await pool.close()
LifespanShutdown ==
  /\ lifespanPc = "running"
  /\ \A s \in Invocations : s.pc = "done"
  /\ lifespanPc' = "closed"
  /\ UNCHANGED << pool, created, checkedOut, invs, started, chat, setup >>

Serving == lifespanPc \in {"notrun", "running"}


(***************************************************************************)
(* Result values.                                                          *)
(***************************************************************************)
TableListResult(schema_name, tables, total_count) ==
  [ tag |-> "TableListResult", schema_name |-> schema_name,
    tables |-> tables, total_count |-> total_count ]

TableDataResult(schema, table_name, total_rows, returned_rows, limit, offset, data) ==
  [ tag |-> "TableDataResult", table |-> schema \o <<".">> \o table_name,
    total_rows |-> total_rows, returned_rows |-> returned_rows,
    limit |-> limit, offset |-> offset, data |-> data ]

\* execute_query running its guard before the pool check: a text the guard
\* rejects gets the guard's message also when there is no pool
Unavailable_guard_first(s) ==
  CASE s.tool = "list_tables" -> TableListResult(s.schema, << >>, 0)
    [] s.tool = "read_table" ->
         TableDataResult(s.schema, s.table_name, 0, 0, s.limit, s.offset, << >>)
    [] s.tool = "execute_query" /\ GuardVerdict(s.query).tag # "allowed" ->
         GuardVerdict(s.query)
    [] OTHER -> [tag |-> "ErrConnection"]

\* what each tool returns when ensure_connection_pool() is False
Unavailable(s) ==
  CASE s.tool = "list_tables" -> TableListResult(s.schema, << >>, 0)
    [] s.tool = "read_table" ->
         TableDataResult(s.schema, s.table_name, 0, 0, s.limit, s.offset, << >>)
    [] OTHER -> [tag |-> "ErrConnection"]

(***************************************************************************)
(* The tools, from their first line to their first await.                  *)
(***************************************************************************)
\* the command each tool issues first on its connection
FirstCommand(tool) ==
  CASE tool = "list_tables"     -> "tables_query"
    [] tool = "read_table"      -> "check_query"
    [] tool = "describe_table"  -> "column_query"
    [] tool = "execute_query"   -> "query"
    [] tool = "get_table_stats" -> "exists_query"
    [] tool = "search_tables"   -> "table_query"

\* execute_query with the limit clause appended before the guard runs
Proceed_limit_first(s, p) ==
  IF s.tool = "execute_query" /\ GuardVerdict(s.query).tag # "allowed"
  THEN Return([s EXCEPT !.pool_ok = TRUE,
                        !.query = AddLimit(s.query, s.limit)],
              GuardVerdict(s.query))
  ELSE [s EXCEPT !.query = IF s.tool = "execute_query"
                           THEN AddLimit(s.query, s.limit) ELSE @,
                 !.pool_ok = TRUE, !.pc = "acquire", !.ref = p]

\* the tool's code between the pool check and `pool.acquire()`, with the
\* global pool being p: execute_query runs its guard here
Proceed(s, p) ==
  IF s.tool = "execute_query" /\ GuardVerdict(s.query).tag # "allowed"
  THEN Return([s EXCEPT !.pool_ok = TRUE], GuardVerdict(s.query))
  ELSE [s EXCEPT !.query = IF s.tool = "execute_query"
                           THEN AddLimit(s.query, s.limit) ELSE @,
                 !.pool_ok = TRUE, !.pc = "acquire", !.ref = p]

\* a tool is called: `if not pool: if not await ensure_connection_pool()`;
\* ensure_connection_pool runs to `await asyncpg.create_pool(...)`
Receive(inv) ==
  /\ Serving
  /\ started' = started + 1
  /\ invs' = invs (+) SetToBag({ IF pool # 0
                                 THEN Proceed(inv, pool)
                                 ELSE [inv EXCEPT !.pc = "create_pool"] })
  /\ UNCHANGED << pool, created, checkedOut, lifespanPc, chat, setup >>

\* ensure_connection_pool: pool = await asyncpg.create_pool(...); return True
EnsureCreated(s) ==
  /\ s.pc = "create_pool"
  /\ created < MaxPools
  /\ created' = created + 1
  /\ pool' = created + 1
  /\ Becomes(s, Proceed(s, created + 1))
  /\ UNCHANGED << checkedOut, started, lifespanPc, chat, setup >>

\* ensure_connection_pool: except Exception: return False
EnsureFailed(s) ==
  /\ s.pc = "create_pool"
  /\ Becomes(s, Return(Fault(s, "create_pool failed"), Unavailable(s)))
  /\ UNCHANGED << pool, created, checkedOut, started, lifespanPc, chat, setup >>

\* __aenter__ of `async with pool.acquire() as conn` returns a connection
\* once the pool has fewer than max_size checked out; the tool then issues
\* its first command
Acquire(s) ==
  /\ s.pc = "acquire"
  /\ checkedOut[s.ref] < max_size
  /\ checkedOut' = [checkedOut EXCEPT ![s.ref] = @ + 1]
  /\ Becomes(s, Sending([s EXCEPT !.pc = FirstCommand(s.tool), !.held = 1,
                                  !.acquired = @ + 1],
                        FirstCommand(s.tool),
                        IF s.tool = "execute_query" THEN s.query ELSE << >>))
  /\ UNCHANGED << pool, created, started, lifespanPc, chat, setup >>

\* execute_query: rows = await asyncio.wait_for(conn.fetch(query), 30.0)
ExecuteRows(s) ==
  /\ s.tool = "execute_query" /\ s.pc = "query"
  /\ \E rows \in QueryRowSets :
       Becomes(s, Return([s EXCEPT !.local = Append(@, rows)],
         IF rows = << >>
         THEN [tag |-> "NoResults"]
         ELSE [tag |-> "QueryResult", query |-> EchoQuery(s.query),
               columns |-> <<"id">>, row_count |-> Len(rows), data |-> rows]))
  /\ checkedOut' = Released(s)
  /\ UNCHANGED << pool, created, started, lifespanPc, chat, setup >>

\* the positions at which a command is in flight on the connection
CommandPcs ==
  { "tables_query", "check_query", "count_query", "data_query",
    "column_query", "index_query", "fk_query", "query",
    "exists_query", "stats_query", "type_query", "table_query",
    "search_column_query" }

\* the except clauses of execute_query for an exception of conn.fetch
QueryErrorResult(e) ==
  CASE e = "PostgresSyntaxError" -> [tag |-> "ErrSyntax", text |-> e]
    [] e = "InsufficientPrivilegeError" -> [tag |-> "ErrPrivilege"]
    [] OTHER -> [tag |-> "ErrQuery", text |-> e]

\* the except clause, if any, around the await at which s is suspended
OnException(s, e) ==
  CASE s.tool = "list_tables" -> Return(s, TableListResult(s.schema, << >>, 0))
    [] s.tool = "read_table" ->
         Return(s, TableDataResult(s.schema, s.table_name, 0, 0,
                                   s.limit, s.offset, << >>))
    [] s.tool = "execute_query" /\ s.pc = "query" ->
         Return(s, QueryErrorResult(e))
    [] s.tool = "get_table_stats" /\ s.pc # "acquire" ->
         Return(s, [tag |-> "ErrStats", text |-> e])
    [] OTHER -> Raise(s, e)

\* pool.acquire() or the command in flight raises
DbError(s) ==
  /\ s.pc \in {"acquire"} \cup CommandPcs
  /\ \E e \in (IF s.pc = "query" THEN QueryErrors ELSE {"PostgresError"}) :
       Becomes(s, OnException(Fault(s, e), e))
  /\ checkedOut' = Released(s)
  /\ UNCHANGED << pool, created, started, lifespanPc, chat, setup >>

\* execute_query without its `except asyncio.TimeoutError` clause
TimedOut_uncaught(s) ==
  Raise([s EXCEPT !.cancelled = @ + 1], "TimeoutError")

\* wait_for's 30 s pass: it cancels conn.fetch and raises TimeoutError;
\* except asyncio.TimeoutError: return "Error: Query execution timed out"
TimedOut(s) ==
  Return([s EXCEPT !.cancelled = @ + 1], [tag |-> "ErrTimeout"])

ExecuteTimeout(s) ==
  /\ s.tool = "execute_query" /\ s.pc = "query"
  /\ Becomes(s, TimedOut(Fault(s, "timeout")))
  /\ checkedOut' = Released(s)
  /\ UNCHANGED << pool, created, started, lifespanPc, chat, setup >>

\* the caller goes away: CancelledError is thrown into the coroutine at the
\* await it is suspended on; no `except Exception` catches it, and
\* `async with` releases the connection on the way out
Cancel(s) ==
  /\ s.pc # "done"
  /\ Becomes(s, Raise([s EXCEPT !.fault = "cancel", !.cancelled =
                          IF s.pc \in CommandPcs THEN @ + 1 ELSE @],
                      "CancelledError"))
  /\ checkedOut' = Released(s)
  /\ UNCHANGED << pool, created, started, lifespanPc, chat, setup >>

\* s goes on as t; a coroutine that returns or raises leaves `async with`
Continue(s, t) ==
  /\ Becomes(s, t)
  /\ checkedOut' = IF t.pc = "done" THEN Released(s) ELSE checkedOut
  /\ UNCHANGED << pool, created, started, lifespanPc, chat, setup >>

\* the row set of the command in flight is kept and the next command issued
Next_(s, rows, stmt, text) ==
  Sending([s EXCEPT !.local = Append(@, rows), !.pc = stmt], stmt, text)

\* f"{schema}.{table_name}"
QualifiedName(s) == s.schema \o <<".">> \o s.table_name

(***************************************************************************)
(* list_tables                                                             *)
(***************************************************************************)
\* rows = await conn.fetch(query, schema)
\* tables = [row['table_name'] for row in rows]
\* return TableListResult(schema_name=schema, tables=tables,
\*                        total_count=len(tables))
ListFetched(s) ==
  /\ s.tool = "list_tables" /\ s.pc = "tables_query"
  /\ Continue(s, Return(s, TableListResult(s.schema, BaseTables(s.schema),
                                           Len(BaseTables(s.schema)))))

(***************************************************************************)
(* read_table                                                              *)
(***************************************************************************)
\* read_table without its `if not exists` test
ReadChecked_unchecked(s) ==
  /\ s.tool = "read_table" /\ s.pc = "check_query"
  /\ Continue(s, Next_(s, TableExists(s.schema, s.table_name),
                       "count_query", QualifiedName(s)))

\* exists = await conn.fetchval(check_query, schema, table_name)
\* if not exists: return TableDataResult(... total_rows=0 ... data=[])
ReadChecked(s) ==
  /\ s.tool = "read_table" /\ s.pc = "check_query"
  /\ Continue(s,
       IF TableExists(s.schema, s.table_name) = 0
       THEN Return(s, TableDataResult(s.schema, s.table_name, 0, 0,
                                      s.limit, s.offset, << >>))
       ELSE Next_(s, TableExists(s.schema, s.table_name),
                  "count_query", QualifiedName(s)))

\* total_rows = await conn.fetchval(count_query)
ReadCounted(s) ==
  /\ s.tool = "read_table" /\ s.pc = "count_query"
  /\ Continue(s, Next_(s, Len(TableRows(s.schema, s.table_name)),
                       "data_query", QualifiedName(s)))

\* read_table reporting the limit it was given as the number of rows
ReadFetched_limit_as_count(s) ==
  /\ s.tool = "read_table" /\ s.pc = "data_query"
  /\ s.limit >= 0 /\ s.offset >= 0
  /\ \E ordered \in OrderBy1(TableRows(s.schema, s.table_name)) :
       Continue(s, Return(s,
         TableDataResult(s.schema, s.table_name, s.local[2], s.limit,
                         s.limit, s.offset,
                         FetchPage(ordered, s.limit, s.offset))))

\* rows = await conn.fetch(data_query, limit, offset)
\* return TableDataResult(total_rows=total_rows, returned_rows=len(rows), ...)
\* (the database rejects a negative LIMIT or OFFSET)
ReadFetched(s) ==
  /\ s.tool = "read_table" /\ s.pc = "data_query"
  /\ s.limit >= 0 /\ s.offset >= 0
  /\ \E ordered \in OrderBy1(TableRows(s.schema, s.table_name)) :
       Continue(s, Return(s,
         TableDataResult(s.schema, s.table_name, s.local[2],
                         Len(FetchPage(ordered, s.limit, s.offset)),
                         s.limit, s.offset,
                         FetchPage(ordered, s.limit, s.offset))))

(***************************************************************************)
(* describe_table                                                          *)
(***************************************************************************)
\* pg_indexes and the FOREIGN KEY constraints of a table
TableIndexes(schema, table) ==
  IF schema = S_public /\ table = T_users THEN << "users_pkey" >> ELSE << >>

TableForeignKeys(schema, table) == << >>

\* describe_table without its `if not columns` test
DescribeColumns_unchecked(s) ==
  /\ s.tool = "describe_table" /\ s.pc = "column_query"
  /\ Continue(s, Next_(s, TableColumns(s.schema, s.table_name),
                       "index_query", << >>))

\* columns = await conn.fetch(column_query, schema, table_name)
\* if not columns: return f"Table '{schema}.{table_name}' not found"
DescribeColumns(s) ==
  /\ s.tool = "describe_table" /\ s.pc = "column_query"
  /\ Continue(s,
       IF TableColumns(s.schema, s.table_name) = << >>
       THEN Return(s, [tag |-> "TableNotFound", table |-> QualifiedName(s)])
       ELSE Next_(s, TableColumns(s.schema, s.table_name), "index_query", << >>))

\* indexes = await conn.fetch(index_query, schema, table_name)
DescribeIndexes(s) ==
  /\ s.tool = "describe_table" /\ s.pc = "index_query"
  /\ Continue(s, Next_(s, TableIndexes(s.schema, s.table_name), "fk_query", << >>))

\* foreign_keys = await conn.fetch(fk_query, schema, table_name); return result
DescribeForeignKeys(s) ==
  /\ s.tool = "describe_table" /\ s.pc = "fk_query"
  /\ Continue(s, Return(s,
       [tag |-> "TableSchema", table |-> QualifiedName(s),
        columns |-> s.local[1], indexes |-> s.local[2],
        foreign_keys |-> TableForeignKeys(s.schema, s.table_name)]))

(***************************************************************************)
(* get_table_stats                                                         *)
(***************************************************************************)
\* exists = await conn.fetchval(exists_query, schema, table_name)
\* if not exists: return f"Error: Table '{schema}.{table_name}' not found"
StatsChecked(s) ==
  /\ s.tool = "get_table_stats" /\ s.pc = "exists_query"
  /\ Continue(s,
       IF TableExists(s.schema, s.table_name) = 0
       THEN Return(s, [tag |-> "ErrTableNotFound", table |-> QualifiedName(s)])
       ELSE Next_(s, TableExists(s.schema, s.table_name),
                  "stats_query", QualifiedName(s)))

\* stats = await conn.fetchrow(stats_query, full_table_name, schema, table_name)
StatsFetched(s) ==
  /\ s.tool = "get_table_stats" /\ s.pc = "stats_query"
  /\ Continue(s, Next_(s,
       [row_count |-> Len(TableRows(s.schema, s.table_name)),
        column_count |-> Len(TableColumns(s.schema, s.table_name))],
       "type_query", << >>))

\* type_dist = await conn.fetch(type_query, schema, table_name); return result
StatsTyped(s) ==
  /\ s.tool = "get_table_stats" /\ s.pc = "type_query"
  /\ Continue(s, Return(s,
       [tag |-> "TableStats", table |-> QualifiedName(s),
        row_count |-> s.local[2].row_count,
        column_count |-> s.local[2].column_count,
        column_types |->
          { TableColumns(s.schema, s.table_name)[i].data_type :
              i \in 1..Len(TableColumns(s.schema, s.table_name)) }]))

(***************************************************************************)
(* search_tables                                                           *)
(***************************************************************************)
\* matching_tables = await conn.fetch(table_query, schema, search_pattern)
SearchTables(s) ==
  /\ s.tool = "search_tables" /\ s.pc = "table_query"
  /\ Continue(s, Next_(s, MatchingTables(s.schema, search_pattern(s.search_term)),
                       "search_column_query", << >>))

\* matching_columns = await conn.fetch(column_query, schema, search_pattern)
SearchColumns(s) ==
  /\ s.tool = "search_tables" /\ s.pc = "search_column_query"
  /\ Continue(s, Return(s,
       [tag |-> "SearchResult", search_term |-> s.search_term,
        schema_name |-> s.schema, matching_tables |-> s.local[1],
        matching_columns |->
          MatchingColumns(s.schema, search_pattern(s.search_term))]))

(***************************************************************************)
(* Inputs.                                                                 *)
(***************************************************************************)
Pieces ==
  { <<"S","E","L","E","C","T">>, <<"s","e","l">>, <<"e","c","t">>,
    <<" ">>, <<";">>, <<"x">>, <<"L","I","M","I","T">>,
    <<"D","R","O","P">>, kw_delete, kw_truncate, <<"U","p","d","a","t","e">>,
    kw_insert, kw_alter, kw_create }

RECURSIVE Join(_)
Join(ps) == IF ps = << >> THEN << >> ELSE Head(ps) \o Join(Tail(ps))

QueryTexts == { Join(ps) : ps \in UNION { [1..n -> Pieces] : n \in 0..MaxPieces } }

LimitArgs == { -1, 0, DefaultLimit }

(***************************************************************************)
(* execute_query alone, on every query text.                               *)
(***************************************************************************)
Init ==
  /\ pool = 0
  /\ created = 0
  /\ checkedOut = [p \in PoolIds |-> 0]
  /\ invs = EmptyBag
  /\ started = 0
  /\ lifespanPc = "notrun"
  /\ chat = NoChat
  /\ setup = NoSetup

QueryCall ==
  /\ started < 1
  /\ \E query \in QueryTexts, limit \in LimitArgs :
       Receive(NewInv("execute_query", << >>, << >>, query, limit, 0, << >>))

NextQuery ==
  \/ LifespanStart \/ LifespanCreated \/ LifespanFailed \/ LifespanShutdown
  \/ QueryCall
  \/ \E s \in Invocations : EnsureCreated(s)
  \/ \E s \in Invocations : EnsureFailed(s)
  \/ \E s \in Invocations : Acquire(s)
  \/ \E s \in Invocations : ExecuteRows(s)
  \/ \E s \in Invocations : ExecuteTimeout(s)
  \/ \E s \in Invocations : DbError(s)
  \/ \E s \in Invocations : Cancel(s)

SpecQuery == Init /\ [][NextQuery]_vars


(***************************************************************************)
(* The server: concurrent invocations of the six tools.                    *)
(***************************************************************************)
Q_select == <<"S","E","L","E","C","T"," ","x">>
Q_drop   == <<"D","R","O","P"," ","x">>
Q_update == <<"s","e","l","e","c","t"," ","U","p","d","a","t","e">>

ToolCalls ==
  { NewInv("list_tables", << >>, S_public, << >>, 0, 0, << >>) }
  \cup { NewInv("read_table", t, S_public, << >>, DefaultLimit, 0, << >>) :
           t \in {T_users, T_empty, T_missing} }
  \cup { NewInv("describe_table", t, S_public, << >>, 0, 0, << >>) :
           t \in {T_users, T_missing} }
  \cup { NewInv("execute_query", << >>, << >>, q, DefaultLimit, 0, << >>) :
           q \in {Q_select, Q_drop, Q_update} }
  \cup { NewInv("get_table_stats", t, S_public, << >>, 0, 0, << >>) :
           t \in {T_empty, T_missing} }
  \cup { NewInv("search_tables", << >>, S_public, << >>, 0, 0, <<"U","s">>) }

ToolCall ==
  /\ started < NumInv
  /\ \E inv \in ToolCalls : Receive(inv)

Next ==
  \/ LifespanStart \/ LifespanCreated \/ LifespanFailed \/ LifespanShutdown
  \/ ToolCall
  \/ \E s \in Invocations : EnsureCreated(s)
  \/ \E s \in Invocations : EnsureFailed(s)
  \/ \E s \in Invocations : Acquire(s)
  \/ \E s \in Invocations : ListFetched(s)
  \/ \E s \in Invocations : ReadChecked(s)
  \/ \E s \in Invocations : ReadCounted(s)
  \/ \E s \in Invocations : ReadFetched(s)
  \/ \E s \in Invocations : DescribeColumns(s)
  \/ \E s \in Invocations : DescribeIndexes(s)
  \/ \E s \in Invocations : DescribeForeignKeys(s)
  \/ \E s \in Invocations : ExecuteRows(s)
  \/ \E s \in Invocations : ExecuteTimeout(s)
  \/ \E s \in Invocations : StatsChecked(s)
  \/ \E s \in Invocations : StatsFetched(s)
  \/ \E s \in Invocations : StatsTyped(s)
  \/ \E s \in Invocations : SearchTables(s)
  \/ \E s \in Invocations : SearchColumns(s)
  \/ \E s \in Invocations : DbError(s)
  \/ \E s \in Invocations : Cancel(s)

Spec == Init /\ [][Next]_vars


(***************************************************************************)
(* The pool under load: more read_table calls than max_size, no failures.  *)
(***************************************************************************)
PoolCall ==
  /\ started < PoolInv
  /\ Receive(NewInv("read_table", T_users, S_public, << >>, DefaultLimit, 0, << >>))

NextPool ==
  \/ PoolCall
  \/ \E s \in Invocations : EnsureCreated(s)
  \/ \E s \in Invocations : EnsureFailed(s)
  \/ \E s \in Invocations : Acquire(s)
  \/ \E s \in Invocations : ReadChecked(s)
  \/ \E s \in Invocations : ReadCounted(s)
  \/ \E s \in Invocations : ReadFetched(s)

SpecPool == Init /\ [][NextPool]_vars


(***************************************************************************)
(* read_table alone, on every table, limit and offset.                     *)
(***************************************************************************)
\* `limit: int` and `offset: int` are not validated by the tool
ReadLimits == { -1, 0, 1, DefaultLimit }

ReadOffsets == { -1, 0, 1, 3 }

ReadTables == { T_users, T_empty, T_missing, T_view, T_tied }

ReadCall ==
  /\ started < 1
  /\ \E table_name \in ReadTables, limit \in ReadLimits, offset \in ReadOffsets :
       Receive(NewInv("read_table", table_name, S_public, << >>,
                      limit, offset, << >>))

NextRead ==
  \/ LifespanStart \/ LifespanCreated \/ LifespanFailed \/ LifespanShutdown
  \/ ReadCall
  \/ \E s \in Invocations : EnsureCreated(s)
  \/ \E s \in Invocations : EnsureFailed(s)
  \/ \E s \in Invocations : Acquire(s)
  \/ \E s \in Invocations : ReadChecked(s)
  \/ \E s \in Invocations : ReadCounted(s)
  \/ \E s \in Invocations : ReadFetched(s)
  \/ \E s \in Invocations : DbError(s)
  \/ \E s \in Invocations : Cancel(s)

SpecRead == Init /\ [][NextRead]_vars


(***************************************************************************)
(* search_tables alone, on every search term.                              *)
(***************************************************************************)
MaxTerm == 2

\* the characters search terms are made of: letters in both cases and the
\* characters LIKE gives a meaning to
TermChars == { "U", "s", "d", "_", "%", "\\" }

SearchTerms == UNION { [1..n -> TermChars] : n \in 0..MaxTerm }

SearchCall ==
  /\ started < 1
  /\ \E search_term \in SearchTerms :
       Receive(NewInv("search_tables", << >>, S_public, << >>, 0, 0,
                      search_term))

NextSearch ==
  \/ LifespanStart \/ LifespanCreated \/ LifespanFailed \/ LifespanShutdown
  \/ SearchCall
  \/ \E s \in Invocations : EnsureCreated(s)
  \/ \E s \in Invocations : EnsureFailed(s)
  \/ \E s \in Invocations : Acquire(s)
  \/ \E s \in Invocations : SearchTables(s)
  \/ \E s \in Invocations : SearchColumns(s)
  \/ \E s \in Invocations : DbError(s)
  \/ \E s \in Invocations : Cancel(s)

SpecSearch == Init /\ [][NextSearch]_vars


(***************************************************************************)
(* execute_query alone, on allowed texts about as long as the echo limit.  *)
(***************************************************************************)
EchoSlack == 12

\* the text that starts with prefix and goes on with 'x' up to length n
Padded(prefix, n) == prefix \o [i \in 1..(n - Len(prefix)) |-> "x"]

LongTexts ==
  { Padded(prefix, n) :
      prefix \in { <<"s","e","l","e","c","t"," ">>,
                   <<"s","e","l","e","c","t"," ","l","i","m","i","t"," ">> },
      n \in (EchoLen - EchoSlack)..(EchoLen + EchoSlack) }

EchoCall ==
  /\ started < 1
  /\ \E query \in LongTexts, limit \in LimitArgs :
       Receive(NewInv("execute_query", << >>, << >>, query, limit, 0, << >>))

NextEcho ==
  \/ LifespanStart \/ LifespanCreated \/ LifespanFailed \/ LifespanShutdown
  \/ EchoCall
  \/ \E s \in Invocations : EnsureCreated(s)
  \/ \E s \in Invocations : EnsureFailed(s)
  \/ \E s \in Invocations : Acquire(s)
  \/ \E s \in Invocations : ExecuteRows(s)
  \/ \E s \in Invocations : ExecuteTimeout(s)
  \/ \E s \in Invocations : DbError(s)
  \/ \E s \in Invocations : Cancel(s)

SpecEcho == Init /\ [][NextEcho]_vars


(***************************************************************************)
(* read_table called again: the same table read by several invocations.   *)
(***************************************************************************)
RepeatTables == { T_users, T_tied }

RepeatLimits == { 1, DefaultLimit }

RepeatCall ==
  /\ started < NumInv
  /\ \E table_name \in RepeatTables, limit \in RepeatLimits :
       Receive(NewInv("read_table", table_name, S_public, << >>,
                      limit, 0, << >>))

NextRepeat ==
  \/ RepeatCall
  \/ \E s \in Invocations : EnsureCreated(s)
  \/ \E s \in Invocations : EnsureFailed(s)
  \/ \E s \in Invocations : Acquire(s)
  \/ \E s \in Invocations : ReadChecked(s)
  \/ \E s \in Invocations : ReadCounted(s)
  \/ \E s \in Invocations : ReadFetched(s)
  \/ \E s \in Invocations : DbError(s)

SpecRepeat == Init /\ [][NextRepeat]_vars


(***************************************************************************)
(* One invocation that returns rows: read_table on every table, limit and  *)
(* offset, or execute_query.                                               *)
(***************************************************************************)
RowsCall ==
  /\ started < 1
  /\ \E query \in {Q_select, Q_update}, limit \in LimitArgs :
       Receive(NewInv("execute_query", << >>, << >>, query, limit, 0, << >>))

NextRows ==
  \/ LifespanStart \/ LifespanCreated \/ LifespanFailed \/ LifespanShutdown
  \/ ReadCall
  \/ RowsCall
  \/ \E s \in Invocations : EnsureCreated(s)
  \/ \E s \in Invocations : EnsureFailed(s)
  \/ \E s \in Invocations : Acquire(s)
  \/ \E s \in Invocations : ReadChecked(s)
  \/ \E s \in Invocations : ReadCounted(s)
  \/ \E s \in Invocations : ReadFetched(s)
  \/ \E s \in Invocations : ExecuteRows(s)
  \/ \E s \in Invocations : ExecuteTimeout(s)
  \/ \E s \in Invocations : DbError(s)
  \/ \E s \in Invocations : Cancel(s)

SpecRows == Init /\ [][NextRows]_vars


(***************************************************************************)
(* The chat front-end (streamlit_openai_mcp.py and its fixed variant).     *)
(* A tool result reaches it as the text of the first content item of the   *)
(* MCP reply.                                                              *)
(***************************************************************************)
\* Python's None; a value that may be None is << v >> when it is v
None == << >>

\* a text that json.loads parses into value, and one it rejects
JsonText(value) == [json |-> TRUE, value |-> value]

PlainText(text) == [json |-> FALSE, text |-> text]

\* a JSON object with the given keys, and a JSON array
JsonObject(fields) == [dict |-> TRUE, fields |-> fields]

JsonArray(items) == [dict |-> FALSE, items |-> items]

\* data = json.loads(result["result"]); ok is FALSE for JSONDecodeError
json_loads(text) ==
  IF text.json THEN [ok |-> TRUE, data |-> text.value] ELSE [ok |-> FALSE]

\* result.content[0].text for a value the server's tool returned: a pydantic
\* model and the dict of execute_query arrive as a JSON object of their
\* fields, every other return value is a sentence or a report
Serialized(result) ==
  IF result.tag \in {"TableListResult", "TableDataResult", "QueryResult"}
  THEN JsonText(JsonObject([k \in DOMAIN result \ {"tag"} |-> result[k]]))
  ELSE PlainText(result)

\* a query result without rows in the structured form, which format_response
\* has a branch for
EmptyQueryResult ==
  [tag |-> "QueryResult", query |-> Q_select, columns |-> << >>,
   row_count |-> 0, data |-> << >>]

\* values a tool of the server may send back
ToolReturns(tool) ==
  { [tag |-> "ErrConnection"] } \cup
  CASE tool = "list_tables" ->
         { TableListResult(S_public, BaseTables(S_public),
                           Len(BaseTables(S_public))),
           TableListResult(T_missing, << >>, 0) }
    [] tool = "read_table" ->
         { TableDataResult(S_public, T_users, 2, 2, DefaultLimit, 0,
                           TableRows(S_public, T_users)),
           TableDataResult(S_public, T_empty, 0, 0, DefaultLimit, 0, << >>) }
    [] tool = "execute_query" ->
         { [tag |-> "QueryResult", query |-> EchoQuery(Q_select),
            columns |-> <<"id">>, row_count |-> 1, data |-> << [id |-> 1] >>],
           EmptyQueryResult,
           [tag |-> "NoResults"], [tag |-> "ErrNotSelect"] }
    [] tool = "describe_table" ->
         { [tag |-> "TableSchema", table |-> T_users],
           [tag |-> "TableNotFound", table |-> T_missing] }
    [] tool = "get_table_stats" -> { [tag |-> "TableStats", table |-> T_users] }
    [] tool = "search_tables" -> { [tag |-> "SearchResult"] }

\* the texts call_mcp_tool may get from the server for a tool
ToolTexts(tool) ==
  { Serialized(r) : r \in ToolReturns(tool) } \cup { JsonText(JsonArray(<< 1 >>)) }

\* data.get(key)
Get(fields, key) == IF key \in DOMAIN fields THEN << fields[key] >> ELSE None

\* pd.DataFrame(data["data"])
DataFrame(rows) == [df |-> rows]

\* the raw result as text (describe_table, get_table_stats, search_tables)
RawText(message, result) ==
  [type |-> "text", content |-> << message, result.result >>]

\* format_response, `if len(results) == 1:` of streamlit_openai_mcp.py
FormatOne(message, result) ==
  LET loaded == json_loads(result.result)
  IN  IF ~loaded.ok \/ ~loaded.data.dict
      THEN RawText(message, result)
      ELSE
        LET data == loaded.data.fields
        IN  IF result.tool = "list_tables" /\ "tables" \in DOMAIN data
            THEN IF data.tables = << >>
                 THEN [type |-> "text",
                       content |-> << message,
                         [no_tables_in |->
                            IF "schema_name" \in DOMAIN data
                            THEN data.schema_name ELSE S_public] >>]
                 ELSE IF "total_count" \in DOMAIN data
                 THEN [type |-> "text",
                       content |-> << message,
                         [total_count |-> data.total_count,
                          table_list |-> data.tables] >>]
                 ELSE RawText(message, result)
            ELSE IF "data" \in DOMAIN data /\ data.data # << >>
            THEN [type |-> "dataframe", message |-> message,
                  content |-> DataFrame(data.data),
                  metadata |-> [table |-> Get(data, "table"),
                                total_rows |-> Get(data, "total_rows"),
                                returned_rows |-> Get(data, "returned_rows"),
                                query |-> Get(data, "query")]]
            ELSE IF "row_count" \in DOMAIN data /\ "data" \in DOMAIN data
            THEN [type |-> "text", content |-> << message, "no results" >>]
            ELSE RawText(message, result)

\* _to_int_or_none(x) of streamlit_openai_mcp_fixed.py, for the values the
\* results hold: None stays None and a count stays the same integer
to_int_or_none(x) == IF x = None THEN None ELSE << x[1] >>

\* format_response, `if len(results) == 1:` of streamlit_openai_mcp_fixed.py
FormatOne_fixed(message, result) ==
  LET loaded == json_loads(result.result)
  IN  IF ~loaded.ok \/ ~loaded.data.dict
      THEN RawText(message, result)
      ELSE
        LET data == loaded.data.fields
        IN  IF result.tool = "list_tables" /\ "tables" \in DOMAIN data
            THEN IF data.tables = << >>
                 THEN [type |-> "text",
                       content |-> << message,
                         [no_tables_in |->
                            IF "schema_name" \in DOMAIN data
                            THEN data.schema_name ELSE S_public] >>]
                 ELSE [type |-> "text",
                       content |-> << message,
                         [total_count |-> to_int_or_none(Get(data, "total_count")),
                          table_list |-> data.tables] >>]
            ELSE IF "data" \in DOMAIN data /\ data.data # << >>
            THEN [type |-> "dataframe", message |-> message,
                  content |-> DataFrame(data.data),
                  metadata |->
                    [table |-> Get(data, "table"),
                     total_rows |-> to_int_or_none(Get(data, "total_rows")),
                     returned_rows |->
                       to_int_or_none(IF Get(data, "returned_rows") = None
                                      THEN << Len(data.data) >>
                                      ELSE Get(data, "returned_rows")),
                     query |-> Get(data, "query")]]
            ELSE IF "row_count" \in DOMAIN data /\ "data" \in DOMAIN data
            THEN [type |-> "dataframe",
                  message |-> << message, "no results" >>,
                  content |-> DataFrame(<< >>),
                  metadata |->
                    [query |-> Get(data, "query"),
                     row_count |-> to_int_or_none(Get(data, "row_count")),
                     returned_rows |-> << 0 >>,
                     columns |-> Get(data, "columns")]]
            ELSE RawText(message, result)

\* the multiple-result test without the emptiness test on data["data"]
Tabular_any_data(result) ==
  LET loaded == json_loads(result.result)
  IN  /\ loaded.ok
      /\ loaded.data.dict
      /\ "data" \in DOMAIN loaded.data.fields

\* the result is shown as a table in the multiple-result loop:
\* isinstance(data, dict) and "data" in data and data["data"]
Tabular(result) ==
  LET loaded == json_loads(result.result)
  IN  /\ loaded.ok
      /\ loaded.data.dict
      /\ "data" \in DOMAIN loaded.data.fields
      /\ loaded.data.fields.data # << >>

\* formatted_content after the loop over results
RECURSIVE Narrative(_, _)
Narrative(content, results) ==
  IF results = << >> THEN content
  ELSE Narrative(
         content \o << [header |-> Head(results).tool] >>
                 \o (IF Tabular(Head(results)) THEN << >>
                     ELSE << Head(results).result >>),
         Tail(results))

\* dataframes after the loop over results
RECURSIVE Frames(_)
Frames(results) ==
  IF results = << >> THEN << >>
  ELSE (IF Tabular(Head(results))
        THEN << [df |-> DataFrame(json_loads(Head(results).result).data.fields.data),
                 metadata |->
                   [tool |-> Head(results).tool,
                    table |-> Get(json_loads(Head(results).result).data.fields,
                                  "table"),
                    total_rows |->
                      Get(json_loads(Head(results).result).data.fields,
                          "total_rows")]] >>
        ELSE << >>)
       \o Frames(Tail(results))

\* format_response, `# Handle multiple results` (both files: the fixed one
\* passes total_rows through _to_int_or_none)
FormatMany(message, results) ==
  IF Frames(results) # << >>
  THEN [type |-> "mixed", content |-> Narrative(<< message >>, results),
        dataframes |-> Frames(results)]
  ELSE [type |-> "text", content |-> Narrative(<< message >>, results)]

\* format_response returning the type the language model asked for when
\* there is nothing to show
format_response_as_asked(message, results, response_type) ==
  IF results = << >> THEN [type |-> response_type, content |-> message]
  ELSE IF Len(results) = 1 THEN FormatOne(message, results[1])
  ELSE FormatMany(message, results)

\* format_response of streamlit_openai_mcp.py
format_response(message, results, response_type) ==
  IF results = << >> THEN [type |-> "text", content |-> message]
  ELSE IF Len(results) = 1 THEN FormatOne(message, results[1])
  ELSE FormatMany(message, results)

\* format_response of streamlit_openai_mcp_fixed.py
format_response_fixed(message, results, response_type) ==
  IF results = << >> THEN [type |-> "text", content |-> message]
  ELSE IF Len(results) = 1 THEN FormatOne_fixed(message, results[1])
  ELSE FormatMany(message, results)


(***************************************************************************)
(* One turn of the chat: process_user_message.                             *)
(***************************************************************************)
MaxCalls == 2

Apps == {"original", "fixed"}

ToolNames ==
  { "list_tables", "read_table", "describe_table", "execute_query",
    "get_table_stats", "search_tables" }

\* "response_type": "text|dataframe|mixed" of SYSTEM_PROMPT
ResponseTypes == {"text", "dataframe", "mixed"}

M_found          == "Here are the records"
M_default        == "Here's what I found:"
M_not_configured == "AI client is not properly configured."
M_rephrase       == "I encountered an error understanding your request."

\* the replies of the language model that parse as a JSON object: up to
\* MaxCalls tool calls, a reply without the optional keys, and a reply whose
\* tool call lacks its arguments
AiReplies ==
  { [tools_to_call |-> calls, response_type |-> rt,
     user_facing_message |-> M_found] :
      calls \in UNION { [1..n -> { [tool |-> tool, arguments |-> "arguments"] :
                                     tool \in ToolNames }] : n \in 0..MaxCalls },
      rt \in ResponseTypes }
  \cup { [thoughts |-> "thoughts"] }
  \cup { [tools_to_call |-> << [tool |-> "list_tables"] >>,
          response_type |-> "text", user_facing_message |-> M_found] }

\* a fallback that still asks for a tool
Fallback_with_tools(fault) ==
  [thoughts |-> fault,
   tools_to_call |-> << [tool |-> "list_tables", arguments |-> "arguments"] >>,
   response_type |-> "text", user_facing_message |-> M_rephrase]

\* what get_ai_interpretation returns without a reply of the model
Fallback(fault) ==
  IF fault = "no_client"
  THEN [thoughts |-> "OpenAI client not initialized", tools_to_call |-> << >>,
        response_type |-> "text", user_facing_message |-> M_not_configured]
  ELSE [thoughts |-> fault, tools_to_call |-> << >>,
        response_type |-> "text", user_facing_message |-> M_rephrase]

\* ai_interpretation.get("tools_to_call", [])
tools_to_call(ai) ==
  IF "tools_to_call" \in DOMAIN ai THEN ai.tools_to_call ELSE << >>

\* a user message arrives in one of the two front-ends:
\* ai_interpretation = self.get_ai_interpretation(user_message, context)
ChatAsk ==
  /\ chat = NoChat
  /\ \E app \in Apps :
       chat' = [pc |-> "interpret", app |-> app, ai |-> None, ai_fault |-> "",
                results |-> << >>, called |-> 0,
                response |-> None, raised |-> ""]
  /\ UNCHANGED << server, setup >>

\* if not openai_client: return {... "tools_to_call": [] ...}
AiNoClient ==
  /\ chat.pc = "interpret" /\ chat.app = "original"
  /\ chat' = [chat EXCEPT !.pc = "tools", !.ai_fault = "no_client",
                          !.ai = Fallback("no_client")]
  /\ UNCHANGED << server, setup >>

\* chat.completions.create raises, or json.loads rejects the reply:
\* except Exception as e: st.error(...); return {... "tools_to_call": [] ...}
AiFails ==
  /\ chat.pc = "interpret"
  /\ \E fault \in {"api_error", "bad_json"} :
       chat' = [chat EXCEPT !.pc = "tools", !.ai_fault = fault,
                            !.ai = Fallback(fault)]
  /\ UNCHANGED << server, setup >>

\* ai_response = json.loads(response.choices[0].message.content)
AiAnswers ==
  /\ chat.pc = "interpret"
  /\ \E reply \in AiReplies :
       chat' = [chat EXCEPT !.pc = "tools", !.ai = reply]
  /\ UNCHANGED << server, setup >>

\* the next entry of tools_to_call, if the loop has one left
NextToolCall ==
  IF chat.pc = "tools" /\ Len(chat.results) < Len(tools_to_call(chat.ai))
  THEN << tools_to_call(chat.ai)[Len(chat.results) + 1] >>
  ELSE << >>

\* tool_name = tool_call["tool"]; arguments = tool_call["arguments"]
WellFormed(tool_call) == {"tool", "arguments"} \subseteq DOMAIN tool_call

\* results.append({"tool", "arguments", "result"})
Appended(tool_call, text) ==
  [chat EXCEPT !.called = @ + 1,
               !.results = Append(@, [tool |-> tool_call.tool,
                                      arguments |-> tool_call.arguments,
                                      result |-> text])]

\* call_mcp_tool: return result.content[0].text, or "No result returned"
ChatToolResult ==
  /\ NextToolCall # << >> /\ WellFormed(NextToolCall[1])
  /\ \E text \in ToolTexts(NextToolCall[1].tool)
                   \cup { PlainText([tag |-> "NoResultReturned"]) } :
       chat' = Appended(NextToolCall[1], text)
  /\ UNCHANGED << server, setup >>

\* call_mcp_tool: except Exception as e: return f"Error calling tool: {e}"
ChatToolError ==
  /\ NextToolCall # << >> /\ WellFormed(NextToolCall[1])
  /\ chat' = Appended(NextToolCall[1], PlainText([tag |-> "ErrCallingTool"]))
  /\ UNCHANGED << server, setup >>

\* tool_call["arguments"] raises KeyError out of process_user_message
ChatToolMalformed ==
  /\ NextToolCall # << >> /\ ~WellFormed(NextToolCall[1])
  /\ chat' = [chat EXCEPT !.pc = "done", !.raised = "KeyError"]
  /\ UNCHANGED << server, setup >>

\* return self.format_response(ai_interpretation.get("user_facing_message",
\*   "Here's what I found:"), results, ai_interpretation.get("response_type",
\*   "text"))
ChatFormat ==
  /\ chat.pc = "tools" /\ NextToolCall = << >>
  /\ LET message == IF "user_facing_message" \in DOMAIN chat.ai
                    THEN chat.ai.user_facing_message ELSE M_default
         response_type == IF "response_type" \in DOMAIN chat.ai
                          THEN chat.ai.response_type ELSE "text"
     IN  chat' = [chat EXCEPT !.pc = "done", !.response =
                    IF chat.app = "original"
                    THEN format_response(message, chat.results, response_type)
                    ELSE format_response_fixed(message, chat.results,
                                               response_type)]
  /\ UNCHANGED << server, setup >>

NextChat ==
  \/ ChatAsk
  \/ AiNoClient
  \/ AiFails
  \/ AiAnswers
  \/ ChatToolResult
  \/ ChatToolError
  \/ ChatToolMalformed
  \/ ChatFormat

SpecChat == Init /\ [][NextChat]_vars


(***************************************************************************)
(* get_database_config of postgres_mcp_server.py and of verify_setup.py,   *)
(* on the environment load_dotenv() leaves.  os.getenv gives None or the   *)
(* text of the variable; a variable may be set to the empty text.          *)
(***************************************************************************)
MaxSet == 3

\* the variables the two functions read besides DB_PROFILE
EnvNames ==
  { "EXTERNAL_PGHOST", "EXTERNAL_PGPORT", "EXTERNAL_PGDATABASE",
    "EXTERNAL_PGUSER", "EXTERNAL_PGPASSWORD", "EXTERNAL_DATABASE_URL",
    "LOCAL_PGHOST", "LOCAL_PGPORT", "LOCAL_PGDATABASE",
    "LOCAL_PGUSER", "LOCAL_PGPASSWORD", "LOCAL_DATABASE_URL",
    "PGHOST", "PGPORT", "PGDATABASE", "PGUSER", "PGPASSWORD", "DATABASE_URL" }

P_local    == <<"l","o","c","a","l">>
P_external == <<"e","x","t","e","r","n","a","l">>
P_External == <<"E","x","t","e","r","n","a","l">>
P_other    == <<"p","r","o","d">>

\* DB_PROFILE: unset, empty, or one of the texts above
ProfileSettings ==
  { None, << << >> >>, << P_local >>, << P_external >>, << P_External >>,
    << P_other >> }

\* the variables whose text the code tests for emptiness (`not db_url`,
\* `all([host, database, user])`, `password or ''`, `host or 'from_url'`)
TestedNames ==
  { "EXTERNAL_PGHOST", "EXTERNAL_PGDATABASE", "EXTERNAL_PGUSER",
    "EXTERNAL_PGPASSWORD", "EXTERNAL_DATABASE_URL", "LOCAL_DATABASE_URL",
    "DATABASE_URL" }

\* the environment with DB_PROFILE as given and the variables of `set` set,
\* those of `empty` to the empty text and the others to a text of their own
Environment(profile, set, empty) ==
  [profile |-> profile, vars |-> [n \in set |-> IF n \in empty THEN "" ELSE n]]

\* os.getenv(name) and os.getenv(name, default)
getenv(env, name, default) ==
  IF name \in DOMAIN env.vars THEN << env.vars[name] >> ELSE default

\* Python's truth value of an optional text
Truthy(x) == x # None /\ x[1] # ""

\* x or y
Or(x, y) == IF Truthy(x) THEN x ELSE y

\* f"postgresql://{user}:{password}@{host}:{port}/{database}"
PostgresUrl(user, password, host, port, database) ==
  << [scheme |-> "postgresql", user |-> user[1], password |-> password[1],
      host |-> host[1], port |-> port[1], database |-> database[1]] >>

\* the text of a *_DATABASE_URL variable as a URL
GivenUrl(text) == << [given |-> text[1]] >>

\* get_database_config of postgres_mcp_server.py
get_database_config(env) ==
  LET profile == Lower(IF env.profile = None THEN P_local ELSE env.profile[1])
      external ==
        LET host     == getenv(env, "EXTERNAL_PGHOST", None)
            port     == getenv(env, "EXTERNAL_PGPORT", << "5432" >>)
            database == getenv(env, "EXTERNAL_PGDATABASE", None)
            user     == getenv(env, "EXTERNAL_PGUSER", None)
            password == getenv(env, "EXTERNAL_PGPASSWORD", None)
            given    == getenv(env, "EXTERNAL_DATABASE_URL", None)
            db_url   == IF Truthy(given) THEN GivenUrl(given)
                        ELSE IF Truthy(host) /\ Truthy(database) /\ Truthy(user)
                        THEN PostgresUrl(user, Or(password, << "" >>), host,
                                         port, database)
                        ELSE None
        IN  IF db_url # None
            THEN << [profile |-> "external", DATABASE_URL |-> db_url,
                     host |-> Or(host, << "from_url" >>), port |-> port,
                     database |-> database, user |-> user,
                     password |-> password] >>
            ELSE None
      local ==
        LET host     == getenv(env, "LOCAL_PGHOST", << "localhost" >>)
            port     == getenv(env, "LOCAL_PGPORT", << "5432" >>)
            database == getenv(env, "LOCAL_PGDATABASE", << "cmdb" >>)
            user     == getenv(env, "LOCAL_PGUSER", << "mcp_user" >>)
            password == getenv(env, "LOCAL_PGPASSWORD", << "" >>)
            given    == getenv(env, "LOCAL_DATABASE_URL", None)
        IN  [profile |-> "local",
             DATABASE_URL |-> IF Truthy(given) THEN GivenUrl(given)
                              ELSE PostgresUrl(user, password, host, port,
                                               database),
             host |-> host, port |-> port, database |-> database,
             user |-> user, password |-> password]
      legacy ==
        LET host     == getenv(env, "PGHOST", << "localhost" >>)
            port     == getenv(env, "PGPORT", << "5432" >>)
            database == getenv(env, "PGDATABASE", << "postgres" >>)
            user     == getenv(env, "PGUSER", << "postgres" >>)
            password == getenv(env, "PGPASSWORD", << "" >>)
            given    == getenv(env, "DATABASE_URL", None)
        IN  [profile |-> "legacy",
             DATABASE_URL |-> IF Truthy(given) THEN GivenUrl(given)
                              ELSE PostgresUrl(user, password, host, port,
                                               database),
             host |-> host, port |-> port, database |-> database,
             user |-> user, password |-> password]
  IN  IF profile = P_external /\ external # None THEN external[1]
      ELSE IF profile = P_local THEN local
      ELSE legacy

\* get_database_config comparing DB_PROFILE as it is written, without lower()
verify_get_database_config_case_sensitive(env) ==
  IF env.profile # None /\ Lower(env.profile[1]) # env.profile[1]
  THEN get_database_config([env EXCEPT !.profile = << P_other >>])
  ELSE get_database_config(env)

\* get_database_config of verify_setup.py
verify_get_database_config(env) ==
  LET profile == Lower(IF env.profile = None THEN P_local ELSE env.profile[1])
      external ==
        LET host     == getenv(env, "EXTERNAL_PGHOST", None)
            port     == getenv(env, "EXTERNAL_PGPORT", << "5432" >>)
            database == getenv(env, "EXTERNAL_PGDATABASE", None)
            user     == getenv(env, "EXTERNAL_PGUSER", None)
            password == getenv(env, "EXTERNAL_PGPASSWORD", None)
            given    == getenv(env, "EXTERNAL_DATABASE_URL", None)
            db_url   == IF Truthy(given) THEN GivenUrl(given)
                        ELSE IF Truthy(host) /\ Truthy(database) /\ Truthy(user)
                        THEN PostgresUrl(user, Or(password, << "" >>), host,
                                         port, database)
                        ELSE None
        IN  IF db_url # None
            THEN << [profile |-> "external", DATABASE_URL |-> db_url,
                     host |-> Or(host, << "from_url" >>), port |-> port,
                     database |-> database, user |-> user,
                     password |-> password] >>
            ELSE None
      local ==
        LET host     == getenv(env, "LOCAL_PGHOST", << "localhost" >>)
            port     == getenv(env, "LOCAL_PGPORT", << "5432" >>)
            database == getenv(env, "LOCAL_PGDATABASE", << "cmdb" >>)
            user     == getenv(env, "LOCAL_PGUSER", << "mcp_user" >>)
            password == getenv(env, "LOCAL_PGPASSWORD", << "" >>)
            given    == getenv(env, "LOCAL_DATABASE_URL", None)
        IN  [profile |-> "local",
             DATABASE_URL |-> IF Truthy(given) THEN GivenUrl(given)
                              ELSE PostgresUrl(user, password, host, port,
                                               database),
             host |-> host, port |-> port, database |-> database,
             user |-> user, password |-> password]
      legacy ==
        LET host     == getenv(env, "PGHOST", << "localhost" >>)
            port     == getenv(env, "PGPORT", << "5432" >>)
            database == getenv(env, "PGDATABASE", << "postgres" >>)
            user     == getenv(env, "PGUSER", << "postgres" >>)
            password == getenv(env, "PGPASSWORD", << "" >>)
            given    == getenv(env, "DATABASE_URL", None)
        IN  [profile |-> "legacy",
             DATABASE_URL |-> IF Truthy(given) THEN GivenUrl(given)
                              ELSE PostgresUrl(user, password, host, port,
                                               database),
             host |-> host, port |-> port, database |-> database,
             user |-> user, password |-> password]
  IN  IF profile = P_external /\ external # None THEN external[1]
      ELSE IF profile = P_local THEN local
      ELSE legacy

\* load_dotenv(): the process starts in an environment with at most MaxSet
\* of the variables set; only a variable the code tests for emptiness is
\* given the empty text
SetupEnv ==
  /\ setup = NoSetup
  /\ \E profile \in ProfileSettings, set \in SUBSET EnvNames :
       /\ Cardinality(set) <= MaxSet
       /\ \E empty \in SUBSET (set \cap TestedNames) :
            setup' = [pc |-> "loaded", env |-> Environment(profile, set, empty),
                      server |-> None, verify |-> None]
  /\ UNCHANGED << server, chat >>

\* the server reads its configuration (lifespan, ensure_connection_pool, main)
ServerConfig ==
  /\ setup.pc = "loaded" /\ setup.server = None
  /\ setup' = [setup EXCEPT !.server = << get_database_config(setup.env) >>]
  /\ UNCHANGED << server, chat >>

\* verify_setup.py reads its configuration
VerifyConfig ==
  /\ setup.pc = "loaded" /\ setup.verify = None
  /\ setup' = [setup EXCEPT
                 !.verify = << verify_get_database_config(setup.env) >>]
  /\ UNCHANGED << server, chat >>

NextConfig ==
  \/ SetupEnv
  \/ ServerConfig
  \/ VerifyConfig

SpecConfig == Init /\ [][NextConfig]_vars


(***************************************************************************)
(* Properties.                                                             *)
(***************************************************************************)
\* the rejections of the query guard
PolicyTags == {"ErrNotSelect", "ErrKeyword"}

\* the denylist as the specification states it
DenyList ==
  { kw_drop, kw_delete, kw_truncate, kw_update, kw_insert, kw_alter, kw_create }

IsSelect(text) == StartsWith(Strip(Lower(text)), kw_select)

HasDenied(text) == \E k \in DenyList : Contains(Lower(text), k)

\* execute_query invocations whose pool check has passed
Guarded == { s \in Invocations : s.tool = "execute_query" /\ s.pool_ok }

\* the invocation was turned away before touching the pool or the database
TurnedAway(s) ==
  /\ s.pc = "done" /\ s.raised = ""
  /\ s.result.tag \in PolicyTags
  /\ s.ref = 0 /\ s.acquired = 0 /\ s.sent = << >>

\* invocations (with multiplicity) holding a connection of pool p
RECURSIVE HeldIn(_, _)
HeldIn(S, p) ==
  IF S = {} THEN 0
  ELSE LET s == CHOOSE x \in S : TRUE
       IN  (IF s.ref = p THEN s.held * CopiesIn(s, invs) ELSE 0)
           + HeldIn(S \ {s}, p)

Holding(p) == HeldIn(Invocations, p)

RECURSIVE SumOver(_, _)
SumOver(f, S) ==
  IF S = {} THEN 0
  ELSE LET x == CHOOSE y \in S : TRUE IN f[x] + SumOver(f, S \ {x})

\* C1: with the pool available, every query text whose trimmed, lower-cased
\* form does not start with 'select' is rejected: execute_query returns the
\* guard's error and the text is never allowed through to the pool.
C1_NonSelectRejected ==
  \A s \in Guarded : ~IsSelect(s.given) => TurnedAway(s)

\* C1 witness: a rejected text that contains 'select', but not at its start
C1_Witness ==
  \E s \in Guarded :
    /\ ~IsSelect(s.given) /\ Contains(Lower(s.given), kw_select)
    /\ s.pc = "done"

\* C2: a text starting with 'select' is rejected exactly when its lower-cased
\* form contains one of drop, delete, truncate, update, insert, alter, create
\* as a substring; a SELECT containing none of them is allowed.
C2_DenylistDecides ==
  \A s \in Guarded :
    IsSelect(s.given) =>
      IF HasDenied(s.given)
      THEN TurnedAway(s) /\ s.result.tag = "ErrKeyword"
      ELSE s.ref # 0 /\ s.result.tag \notin PolicyTags

\* C2 witness: a SELECT rejected for 'update' inside a longer word
C2_Witness ==
  \E s \in Guarded :
    /\ IsSelect(s.given)
    /\ Contains(Lower(s.given), kw_update \o <<"x">>)
    /\ s.pc = "done"

\* C3: an execute_query invocation whose text the guard rejects acquires no
\* connection, issues no database command and leaves the text as given: it
\* goes straight to a returned error.
C3_RejectedTouchesNothing ==
  \A s \in Guarded :
    (~IsSelect(s.given) \/ HasDenied(s.given)) =>
      /\ s.pc = "done" /\ s.raised = "" /\ s.result.tag \in PolicyTags
      /\ s.acquired = 0 /\ s.held = 0 /\ s.sent = << >>
      /\ s.query = s.given
      /\ \A p \in PoolIds : checkedOut[p] = Holding(p)

\* C3 witness: a rejected text that the allowed path would have rewritten
C3_Witness ==
  \E s \in Guarded :
    /\ ~IsSelect(s.given) \/ HasDenied(s.given)
    /\ ~Contains(Lower(s.given), kw_limit)
    /\ EndsWith(s.given, <<";">>)
    /\ s.pc = "done"

\* C4: the text sent to the database for an allowed query ends with
\* ' LIMIT <limit>' when the caller's lower-cased text lacks 'limit', and is
\* exactly the caller's text when it contains 'limit'.
C4_LimitAppended ==
  \A s \in Guarded :
    s.sent # << >> =>
      /\ Len(s.sent) = 1
      /\ IF Contains(Lower(s.given), kw_limit)
         THEN s.sent[1].text = s.given
         ELSE EndsWith(s.sent[1].text,
                       <<" ","L","I","M","I","T"," ">> \o IntToStr(s.limit))

\* C4 witness: both cases sent, one with a terminator stripped and a
\* negative limit argument
C4_Witness ==
  \E s \in Guarded :
    /\ s.sent # << >>
    /\ ~Contains(Lower(s.given), kw_limit)
    /\ EndsWith(s.given, <<";">>)
    /\ s.limit < 0

\* C5: an invocation holds exactly one connection from the moment acquire
\* returns until it leaves `async with`, on every exit (return, early return,
\* database exception, timeout, cancellation), so the pool's count of
\* checked-out connections is the number of such invocations and is zero
\* once every invocation has finished.
C5_ConnectionsReleased ==
  /\ \A s \in Invocations :
       /\ s.held = (IF s.pc \in CommandPcs THEN 1 ELSE 0)
       /\ s.acquired <= 1
       /\ s.held = 1 => s.acquired = 1 /\ s.ref \in PoolIds
  /\ \A p \in PoolIds : checkedOut[p] = Holding(p)
  /\ (\A s \in Invocations : s.pc = "done") =>
       \A p \in PoolIds : checkedOut[p] = 0

\* C5 witness: all invocations finished, one cancelled while it held a
\* connection and one returned early for a missing table
C5_Witness ==
  /\ started = NumInv
  /\ \A s \in Invocations : s.pc = "done"
  /\ \E s \in Invocations : s.fault = "cancel" /\ s.acquired = 1
  /\ \E s \in Invocations :
       /\ s.tool = "read_table" /\ s.table_name = T_missing
       /\ s.acquired = 1 /\ s.fault = ""

\* C6 (as claimed): whatever fails (pool unavailable, table absent, a
\* database exception in any query the tool issues), the tool function
\* returns a value and no exception leaves it.
C6_ErrorsReturnedAsData ==
  \A s \in Invocations :
    (s.fault # "cancel" /\ (~s.pool_ok \/ s.sent # << >>)) => s.raised = ""

\* C7 (as claimed): create_pool runs at most once, whatever the interleaving
\* of invocations that find the pool unset.
C7_OnePool == created <= 1

\* C8: when the 30 s of wait_for pass, the command in flight is cancelled,
\* execute_query returns the timeout error (raises nothing) and its
\* connection is back in the pool.
C8_TimeoutHandled ==
  \A s \in Invocations :
    s.fault = "timeout" =>
      /\ s.pc = "done" /\ s.raised = ""
      /\ s.result.tag = "ErrTimeout"
      /\ s.cancelled = 1 /\ Len(s.sent) = 1
      /\ s.held = 0 /\ checkedOut[s.ref] = Holding(s.ref)

\* C8 witness: an allowed query that timed out
C8_Witness ==
  \E s \in Guarded : s.fault = "timeout" /\ s.acquired = 1

\* C9 (as claimed): the connections checked out by the server never exceed
\* max_size.
C9_CheckedOutWithinMax == SumOver(checkedOut, PoolIds) <= max_size

\* the TableDataResult of read_table for an existing table without rows
EmptyTableResult(s) ==
  TableDataResult(s.schema, s.table_name, 0, 0, s.limit, s.offset, << >>)

\* C10 (as claimed): when the catalog check finds no such table, read_table
\* and get_table_stats return a NotFound error, which differs from the
\* result for an existing empty table, and issue no further query.
C10_NotFoundReported ==
  \A s \in Invocations :
    ( /\ s.tool \in {"read_table", "get_table_stats"}
      /\ s.pc = "done" /\ s.fault = "" /\ s.sent # << >>
      /\ TableExists(s.schema, s.table_name) = 0 ) =>
        /\ s.result.tag = "ErrTableNotFound"
        /\ s.result # EmptyTableResult(s)
        /\ Len(s.sent) = 1

\* C11: describe_table for a table with no columns in the catalog issues the
\* column query only, never the index or the foreign-key query, and when
\* that query has been answered it returns the not-found result and raises
\* nothing.
C11_DescribeNotFound ==
  \A s \in Invocations :
    (s.tool = "describe_table"
       /\ TableColumns(s.schema, s.table_name) = << >>) =>
      /\ \A i \in 1..Len(s.sent) : s.sent[i].stmt = "column_query"
      /\ Len(s.sent) <= 1
      /\ (s.pc = "done" /\ s.fault = "" /\ s.sent # << >>) =>
           /\ s.raised = ""
           /\ s.result = [tag |-> "TableNotFound", table |-> QualifiedName(s)]

\* C11 witness: describe_table of the missing table, answered by the catalog
C11_Witness ==
  \E s \in Invocations :
    /\ s.tool = "describe_table" /\ s.table_name = T_missing
    /\ s.pc = "done" /\ s.fault = "" /\ Len(s.sent) = 1

\* the invocation ran its commands to the end with no failure of the
\* environment and returned
Succeeded(s) ==
  s.pc = "done" /\ s.fault = "" /\ s.raised = "" /\ s.sent # << >>

\* two invocations of the same tool with the same arguments
SameCall(s, t) ==
  /\ s.tool = t.tool /\ s.schema = t.schema /\ s.table_name = t.table_name
  /\ s.given = t.given /\ s.limit = t.limit /\ s.offset = t.offset
  /\ s.search_term = t.search_term

\* C12 (as claimed): an invocation whose pool could not be created sends no
\* command and returns the connection-unavailable error, a value that no
\* successful invocation of the same call returns.
C12_UnavailableReported ==
  \A s \in Invocations :
    s.fault = "create_pool failed" =>
      /\ s.pc = "done" /\ s.raised = "" /\ s.sent = << >> /\ s.acquired = 0
      /\ s.result.tag = "ErrConnection"
      /\ \A t \in Invocations :
           (SameCall(s, t) /\ Succeeded(t)) => t.result # s.result

\* the database raised on a command the invocation had sent
Rejected(s) == s.fault \in QueryErrors /\ s.sent # << >>

\* C13 (as claimed): when the database raises on a command a tool has sent,
\* the tool returns an error value that carries the database's own error
\* text.
C13_UpstreamTextPassed ==
  \A s \in Invocations :
    Rejected(s) =>
      /\ s.pc = "done" /\ s.raised = ""
      /\ s.result.tag \notin {"TableListResult", "TableDataResult"}
      /\ "text" \in DOMAIN s.result
      /\ s.result.text = s.fault

\* C14 (as claimed): every TableDataResult read_table returns has
\* returned_rows <= limit, whichever path produced it.
C14_ReturnedWithinLimit ==
  \A s \in Invocations :
    (s.tool = "read_table" /\ s.result.tag = "TableDataResult") =>
      s.result.returned_rows <= s.result.limit

\* C15: the rejection of execute_query names the rule that triggered: a text
\* that does not start with 'select' gets the not-a-SELECT error even when it
\* contains a denylisted keyword, and the keyword error is given only to a
\* SELECT and names a denylisted keyword which the lower-cased text contains.
C15_RejectionNamesRule ==
  \A s \in Guarded :
    /\ ~IsSelect(s.given) => s.result = [tag |-> "ErrNotSelect"]
    /\ s.result.tag = "ErrNotSelect" => ~IsSelect(s.given)
    /\ s.result.tag = "ErrKeyword" =>
         /\ IsSelect(s.given)
         /\ s.result.keyword \in DenyList
         /\ Contains(Lower(s.given), s.result.keyword)
    /\ (IsSelect(s.given) /\ HasDenied(s.given)) => s.result.tag = "ErrKeyword"

\* C15 witness: a text that does not start with 'select' and contains a
\* denylisted keyword, rejected
C15_Witness ==
  \E s \in Guarded :
    /\ ~IsSelect(s.given) /\ HasDenied(s.given)
    /\ s.pc = "done" /\ s.result.tag \in PolicyTags

\* C16 (as claimed): an allowed query that comes back with zero rows makes
\* execute_query return the structured query result with an empty data
\* sequence and row_count 0, and read_table of an existing table without
\* rows returns data = [] and returned_rows = 0.
C16_EmptyResultStructured ==
  \A s \in Invocations :
    /\ (s.tool = "execute_query" /\ Succeeded(s) /\ s.local = << << >> >>) =>
         /\ s.result.tag = "QueryResult"
         /\ s.result.data = << >> /\ s.result.row_count = 0
    /\ (s.tool = "read_table" /\ Succeeded(s)
          /\ TableExists(s.schema, s.table_name) > 0
          /\ TableRows(s.schema, s.table_name) = << >>) =>
         /\ s.result.tag = "TableDataResult"
         /\ s.result.data = << >> /\ s.result.returned_rows = 0

\* the base tables of the schema whose lower-cased name contains the
\* lower-cased term, in name order
TablesContaining(schema, term) ==
  SortedNames({ t.table_name : t \in
                 { u \in CatalogTables :
                     /\ u.table_schema = schema
                     /\ u.table_type = "BASE TABLE"
                     /\ Contains(Lower(u.table_name), Lower(term)) } })

\* the columns of the schema whose lower-cased column or table name contains
\* the lower-cased term, in table and column name order
ColumnsContaining(schema, term) ==
  SortedColumns({ c \in CatalogColumns :
                    /\ c.table_schema = schema
                    /\ \/ Contains(Lower(c.column_name), Lower(term))
                       \/ Contains(Lower(c.table_name), Lower(term)) })

\* C17 (as claimed): for every search term, search_tables returns exactly
\* the tables whose lower-cased name contains the lower-cased term as a
\* literal substring, in name order, and exactly the columns whose lower-cased
\* column or table name contains it, in table then column name order.
C17_SearchIsSubstring ==
  \A s \in Invocations :
    (s.tool = "search_tables" /\ Succeeded(s)) =>
      /\ s.result.matching_tables = TablesContaining(s.schema, s.search_term)
      /\ s.result.matching_columns = ColumnsContaining(s.schema, s.search_term)

\* C18: the query echoed in a query result is the text that was sent to the
\* database when that text has at most 200 characters, and otherwise its
\* first 200 characters followed by '...'; the text sent is never cut: it
\* begins with the whole of the caller's text (less trailing terminators).
C18_EchoTruncated ==
  \A s \in Guarded :
    s.sent # << >> =>
      /\ Len(s.sent) = 1
      /\ StartsWith(s.sent[1].text, RStripChars(s.given, {";"}))
      /\ s.result.tag = "QueryResult" =>
           IF Len(s.sent[1].text) <= 200
           THEN s.result.query = s.sent[1].text
           ELSE /\ Len(s.result.query) = 203
                /\ SubSeq(s.result.query, 1, 200) = SubSeq(s.sent[1].text, 1, 200)
                /\ SubSeq(s.result.query, 201, 203) = <<".", ".", ".">>

\* C18 witness: a text within 200 characters as given and beyond them with
\* its limit clause, sent whole and echoed cut
C18_Witness ==
  \E s \in Guarded :
    /\ s.result.tag = "QueryResult"
    /\ Len(s.given) <= 200 /\ Len(s.sent[1].text) > 200

\* C19 (as claimed): two read_table invocations with the same arguments that
\* both read the table to the end return the same data in the same order,
\* the same total_rows and the same returned_rows, also for a table in which
\* rows share their first column.
C19_ReadRepeatable ==
  \A s, t \in Invocations :
    (s.tool = "read_table" /\ SameCall(s, t)
       /\ Succeeded(s) /\ Succeeded(t)) =>
      /\ s.result.data = t.result.data
      /\ s.result.total_rows = t.result.total_rows
      /\ s.result.returned_rows = t.result.returned_rows

\* C20: a list_tables invocation that ran its query returns the names of the
\* schema's base tables, each once and no other name, in ascending order;
\* and in every TableListResult it returns, also the fallback ones,
\* total_count is the length of tables.
C20_ListTablesExact ==
  \A s \in Invocations :
    (s.tool = "list_tables" /\ s.result.tag = "TableListResult") =>
      /\ s.result.total_count = Len(s.result.tables)
      /\ Succeeded(s) =>
           /\ { s.result.tables[i] : i \in 1..Len(s.result.tables) }
                = { u.table_name : u \in
                      { v \in CatalogTables : /\ v.table_schema = s.schema
                                              /\ v.table_type = "BASE TABLE" } }
           /\ \A i, j \in 1..Len(s.result.tables) :
                i < j => NameLess(s.result.tables[i], s.result.tables[j])

\* C20 witness: one list_tables returned several names from a schema that
\* also has a view, another returned its fallback after a database error
C20_Witness ==
  /\ \E s \in Invocations :
       /\ s.tool = "list_tables" /\ Succeeded(s)
       /\ Len(s.result.tables) > 1
       /\ \E v \in CatalogTables :
            v.table_schema = s.schema /\ v.table_type = "VIEW"
  /\ \E s \in Invocations :
       /\ s.tool = "list_tables" /\ s.fault \in QueryErrors
       /\ s.result.tag = "TableListResult"

\* C21 (as claimed): for an allowed query without 'limit', the text sent to
\* the database has no statement terminator in front of the appended limit
\* clause, also when the caller's text has whitespace after its last ';'.
C21_TerminatorStripped ==
  \A s \in Guarded :
    (s.sent # << >> /\ ~Contains(Lower(s.given), kw_limit)) =>
      LET text == s.sent[1].text
          body == SubSeq(text, 1, Len(text) - Len(LimitClause(s.limit)))
      IN  /\ EndsWith(text, LimitClause(s.limit))
          /\ ~EndsWith(Strip(body), <<";">>)

\* the commands of read_table and get_table_stats that ask the catalog
\* whether the table exists; they pass schema and table name as parameters
ExistenceChecks == {"check_query", "exists_query"}

\* C22: in read_table and get_table_stats, a command whose text holds the
\* caller's schema and table name is sent only after the existence check of
\* the same invocation was answered for that pair with a non-zero count.
C22_CheckedBeforeInterpolated ==
  \A s \in Invocations :
    s.tool \in {"read_table", "get_table_stats"} =>
      \A i \in 1..Len(s.sent) :
        s.sent[i].text # << >> =>
          /\ s.sent[i].text = QualifiedName(s)
          /\ i > 1
          /\ s.sent[1].stmt \in ExistenceChecks /\ s.sent[1].text = << >>
          /\ Len(s.local) >= 1 /\ s.local[1] > 0
          /\ TableExists(s.schema, s.table_name) > 0

\* C22 witness: a read_table that sent its data query, next to an
\* invocation that stopped at the check of a missing table
C22_Witness ==
  /\ \E s \in Invocations :
       /\ s.tool = "read_table" /\ Len(s.sent) = 3
       /\ s.sent[3].text = QualifiedName(s)
  /\ \E s \in Invocations :
       /\ s.tool \in {"read_table", "get_table_stats"}
       /\ s.table_name = T_missing
       /\ s.pc = "done" /\ s.fault = "" /\ Len(s.sent) = 1

\* C23: in every TableDataResult of read_table, on each path, returned_rows
\* is the length of data; in every query result of execute_query row_count
\* is the length of data; and total_rows of a table read to the end is the
\* answer of the count query, the number of rows of the table, whatever
\* part of them the page holds.
C23_CountsMatchRows ==
  \A s \in Invocations :
    /\ s.result.tag = "TableDataResult" =>
         s.result.returned_rows = Len(s.result.data)
    /\ s.result.tag = "QueryResult" =>
         s.result.row_count = Len(s.result.data)
    /\ (s.tool = "read_table" /\ Succeeded(s) /\ Len(s.sent) = 3) =>
         /\ s.sent[2].stmt = "count_query"
         /\ s.result.total_rows = s.local[2]
         /\ s.result.total_rows = Len(TableRows(s.schema, s.table_name))

\* C23 witness: a page shorter than the table
C23_Witness ==
  \E s \in Invocations :
    /\ s.tool = "read_table" /\ Succeeded(s)
    /\ s.result.returned_rows > 0
    /\ s.result.returned_rows < s.result.total_rows

\* the text is a TableData or a query result of the server with rows in it
RowsResult(text) ==
  \E tool \in ToolNames : \E r \in ToolReturns(tool) :
    /\ r.tag \in {"TableDataResult", "QueryResult"}
    /\ r.data # << >>
    /\ text = Serialized(r)

\* the turn ended with a response for its results
Formatted == chat.pc = "done" /\ chat.raised = ""

TextResults ==
  LET plain == SelectSeq(chat.results, LAMBDA r : ~RowsResult(r.result))
  IN  [i \in 1..Len(plain) |-> plain[i].result]

\* the tools and rows of the results that hold rows, in call order
TableResults ==
  LET tabular == SelectSeq(chat.results, LAMBDA r : RowsResult(r.result))
  IN  [i \in 1..Len(tabular) |->
         [tool |-> tabular[i].tool,
          rows |-> json_loads(tabular[i].result).data.fields.data]]

\* the result texts of a narrative block, in the order they stand in it
TextsOf(content) ==
  LET texts == SelectSeq(Tail(content), LAMBDA c : "header" \notin DOMAIN c)
  IN  [i \in 1..Len(texts) |-> texts[i]]

\* the tools and rows of a dataframes list, in the order they stand in it
TablesOf(response) ==
  IF "dataframes" \in DOMAIN response
  THEN [i \in 1..Len(response.dataframes) |->
          [tool |-> response.dataframes[i].metadata.tool,
           rows |-> response.dataframes[i].df.df]]
  ELSE << >>

\* C25: when two or more results are formatted together the type is 'mixed'
\* exactly when some result holds rows and 'text' otherwise, the narrative
\* block holds the text of every result without rows in call order, and the
\* dataframes list holds every result with rows once, in call order.
C25_ManyAggregated ==
  (Formatted /\ Len(chat.results) >= 2) =>
    /\ chat.response.type =
         (IF \E i \in 1..Len(chat.results) : RowsResult(chat.results[i].result)
          THEN "mixed" ELSE "text")
    /\ TextsOf(chat.response.content) = TextResults
    /\ TablesOf(chat.response) = TableResults

\* C25 witness: a sentence and a page of rows formatted together
C25_Witness ==
  /\ Formatted /\ Len(chat.results) >= 2
  /\ chat.response.type = "mixed"
  /\ TextResults # << >>
  /\ \E i \in 1..Len(chat.results) :
       /\ chat.results[i].tool = "read_table"
       /\ json_loads(chat.results[i].result).ok
       /\ json_loads(chat.results[i].result).data.dict
       /\ json_loads(chat.results[i].result).data.fields.data = << >>

\* the message the turn hands to format_response
TurnMessage ==
  IF "user_facing_message" \in DOMAIN chat.ai
  THEN chat.ai.user_facing_message ELSE M_default

\* the response type the language model asked for
AskedType ==
  IF "response_type" \in DOMAIN chat.ai THEN chat.ai.response_type ELSE "text"

\* C26: the response of format_response depends on the message and the tool
\* results only: every value of the response_type argument gives the response
\* the turn got, a single result never gives 'mixed', and an empty result
\* list gives 'text'.
C26_TypeFromResultsOnly ==
  (Formatted /\ chat.app = "original") =>
    /\ \A rt \in ResponseTypes :
         format_response(TurnMessage, chat.results, rt) = chat.response
    /\ Len(chat.results) = 1 => chat.response.type # "mixed"
    /\ chat.results = << >> => chat.response.type = "text"

\* C26 witness: the model asked for 'mixed' and the single result was a page
\* of rows, shown as 'dataframe'
C26_Witness ==
  /\ Formatted /\ chat.app = "original" /\ chat.ai_fault = ""
  /\ AskedType = "mixed" /\ Len(chat.results) = 1
  /\ chat.response.type = "dataframe"

\* invocations whose ensure_connection_pool() returned False
FailedToCreate == { s \in Invocations : s.fault = "create_pool failed" }

\* the step is the return of a failed ensure_connection_pool()
CreationFails ==
  \E t \in FailedToCreate' : CopiesIn(t, invs') > CopiesIn(t, invs)

\* the step is the start of a tool invocation that goes on to create a pool
CreationAttempted ==
  \E t \in Invocations' :
    /\ t.pc = "create_pool"
    /\ CopiesIn(t, invs') = CopiesIn(t, invs) + 1

\* C27 (as claimed): a failed ensure_connection_pool leaves the global pool
\* as it was and the invocation ends without a retry, an invocation that
\* starts while the pool is unset attempts the creation again, once the pool
\* is set no other pool is created, and the pool is never reset to unset.
C27_RetriedByLaterCallOnly ==
  [][ /\ CreationFails => (pool' = pool /\ created' = created)
      /\ \A t \in FailedToCreate' : t.pc = "done" /\ t.acquired = 0
      /\ (pool = 0 /\ started' = started + 1) => CreationAttempted
      /\ pool # 0 => created' = created
      /\ pool # 0 => pool' # 0 ]_vars

\* C28: an execute_query whose pool could not be created returns the
\* connection-not-initialized error for every query text and sends nothing,
\* and a guard rejection is only ever returned after the pool check passed.
C28_PoolCheckBeforeGuard ==
  \A s \in Invocations :
    s.tool = "execute_query" =>
      /\ s.fault = "create_pool failed" =>
           (s.result = [tag |-> "ErrConnection"] /\ s.sent = << >>)
      /\ (s.pc = "done" /\ s.result.tag \in PolicyTags) => s.pool_ok

\* C28 witness: no pool, and a text the guard would have rejected
C28_Witness ==
  \E s \in Invocations :
    /\ s.tool = "execute_query" /\ s.fault = "create_pool failed"
    /\ GuardVerdict(s.given).tag \in PolicyTags
    /\ s.result = [tag |-> "ErrConnection"]

\* the fallback message of a turn whose interpretation failed
FallbackMessage ==
  IF chat.ai_fault = "no_client" THEN M_not_configured ELSE M_rephrase

\* C29: when the call of the language model or the parsing of its reply
\* fails, the turn goes on with a fallback without tool calls: no tool is
\* called, nothing is raised, and the response is of type 'text' with the
\* fallback message only.  A failed tool call comes back as a result text:
\* every tool call of a turn has its result, and a turn raises only on a
\* tool call that lacks its keys, before call_mcp_tool is entered.
C29_FailuresBecomeText ==
  /\ (chat.pc # "idle" /\ chat.ai_fault # "") =>
       /\ chat.pc \in {"tools", "done"}
       /\ tools_to_call(chat.ai) = << >>
       /\ chat.called = 0 /\ chat.results = << >>
       /\ chat.raised = ""
       /\ chat.pc = "done" =>
            chat.response = [type |-> "text", content |-> FallbackMessage]
  /\ chat.pc # "idle" =>
       /\ chat.called = Len(chat.results)
       /\ chat.raised # "" =>
            ~WellFormed(tools_to_call(chat.ai)[Len(chat.results) + 1])

\* C29 witness: the reply of the model did not parse and the turn ended
\* with the fallback message
C29_Witness ==
  /\ chat.pc = "done" /\ chat.ai_fault = "bad_json"
  /\ chat.response = [type |-> "text", content |-> M_rephrase]

\* both programs have read their configuration
Configured ==
  setup.pc = "loaded" /\ setup.server # None /\ setup.verify # None

\* C30: in every environment get_database_config of verify_setup.py and of
\* postgres_mcp_server.py return the same dictionary.
C30_SameConfig == Configured => setup.verify = setup.server

\* C30 witness: DB_PROFILE is 'External', the external profile is incomplete
\* (a host without a database), and both fell back to the legacy variables
C30_Witness ==
  /\ Configured
  /\ setup.env.profile = << P_External >>
  /\ "EXTERNAL_PGHOST" \in DOMAIN setup.env.vars
  /\ "EXTERNAL_PGDATABASE" \notin DOMAIN setup.env.vars
  /\ "PGHOST" \in DOMAIN setup.env.vars
  /\ setup.server[1].profile = "legacy"
  /\ setup.verify[1].profile = "legacy"

=============================================================================
